---- MODULE Spec2Model ----
(***************************************************************************)
(* Model of verify.py, the provably-fair verification tool for GameRoll    *)
(* rounds: seed/commitment validation, stake loading and rounding, ticket  *)
(* allocation and the weighted draw.                                       *)
(*                                                                         *)
(* Strings are sequences of one-character strings, so that they can be     *)
(* indexed, compared and decoded the way the program does it.  The         *)
(* SHA-256 primitive of hashlib is represented by a deterministic mixing   *)
(* function onto DigestBytes bytes: the program relies only on its being a *)
(* function of the seed bytes.                                             *)
(***************************************************************************)
EXTENDS Integers, Sequences, FiniteSets, TLC

(***************************************************************************)
(* Bounds of the model                                                     *)
(***************************************************************************)
\* number of bytes of the modelled digest (hashlib's SHA-256 has 32)
DigestBytes == 2
\* largest number of "key": value members written in the bets file
MaxEntries == 2

(***************************************************************************)
(* Characters and strings                                                  *)
(***************************************************************************)
Rep(c, n) == [j \in 1..n |-> c]

RECURSIVE Pow(_, _)
Pow(b, e) == IF e = 0 THEN 1 ELSE b * Pow(b, e - 1)

HexDigits == <<"0", "1", "2", "3", "4", "5", "6", "7",
               "8", "9", "a", "b", "c", "d", "e", "f">>

UpperOf == [c \in {"a", "b", "c", "d", "e", "f"} |->
              CASE c = "a" -> "A" [] c = "b" -> "B" [] c = "c" -> "C"
                [] c = "d" -> "D" [] c = "e" -> "E" [] c = "f" -> "F"]

\* str.lower() on one character
LowerChar(c) == IF \E l \in DOMAIN UpperOf : UpperOf[l] = c
                THEN CHOOSE l \in DOMAIN UpperOf : UpperOf[l] = c
                ELSE c

\* str.lower()
Lower(s) == [j \in 1..Len(s) |-> LowerChar(s[j])]

\* str.upper(), used to write a published hash in capitals
Upper(s) == [j \in 1..Len(s) |-> IF s[j] \in DOMAIN UpperOf THEN UpperOf[s[j]] ELSE s[j]]

\* the value of a hexadecimal digit, 16 for any other character
DigitValue(c) ==
    CASE c = "0" -> 0 [] c = "1" -> 1 [] c = "2" -> 2 [] c = "3" -> 3 [] c = "4" -> 4
      [] c = "5" -> 5 [] c = "6" -> 6 [] c = "7" -> 7 [] c = "8" -> 8 [] c = "9" -> 9
      [] c \in {"a", "A"} -> 10 [] c \in {"b", "B"} -> 11 [] c \in {"c", "C"} -> 12
      [] c \in {"d", "D"} -> 13 [] c \in {"e", "E"} -> 14 [] c \in {"f", "F"} -> 15
      [] OTHER -> 16

IsSpace(c) == c \in {" ", "\t", "\n", "\r"}

\* ord() of the characters participant identifiers are written with
Ord(c) == CASE c = "0" -> 48 [] c = "1" -> 49 [] c = "2" -> 50 [] c = "9" -> 57
            [] c = "B" -> 66 [] c = "a" -> 97 [] c = "b" -> 98
            [] OTHER -> 0

\* a comparison that puts the shorter identifier first, as numbers compare
StrLessByLength(s, t) ==
    Len(s) < Len(t) \/ (Len(s) = Len(t) /\ s # t /\
                           LET d == CHOOSE j \in 1..Len(s) : s[j] # t[j] /\ \A h \in 1..(j - 1) : s[h] = t[h]
                           IN Ord(s[d]) < Ord(t[d]))

RECURSIVE StrLess(_, _)
\* s < t on Python strings: lexicographic by code point, a proper prefix first
StrLess(s, t) ==
    IF t = <<>> THEN FALSE
    ELSE IF s = <<>> THEN TRUE
    ELSE IF Ord(Head(s)) # Ord(Head(t)) THEN Ord(Head(s)) < Ord(Head(t))
    ELSE StrLess(Tail(s), Tail(t))

(***************************************************************************)
(* bytes.fromhex, hashlib.sha256, int.from_bytes                           *)
(***************************************************************************)
RECURSIVE SkipSpaces(_, _)
\* the first position at or after p that holds no whitespace
SkipSpaces(s, p) == IF p <= Len(s) /\ IsSpace(s[p]) THEN SkipSpaces(s, p + 1) ELSE p

RECURSIVE FromHexAt(_, _, _)
\* bytes.fromhex from position p on, with the bytes decoded so far:
\* whitespace before a pair of digits is skipped, a pair is two hex digits
FromHexAt(s, p, out) ==
    LET q == SkipSpaces(s, p) IN
    IF q > Len(s) THEN [ok |-> TRUE, bytes |-> out]
    ELSE IF DigitValue(s[q]) >= 16 THEN [ok |-> FALSE, bytes |-> <<>>]
    ELSE IF q + 1 > Len(s) \/ DigitValue(s[q + 1]) >= 16 THEN [ok |-> FALSE, bytes |-> <<>>]
    ELSE FromHexAt(s, q + 2, Append(out, 16 * DigitValue(s[q]) + DigitValue(s[q + 1])))

\* bytes.fromhex(s): ok = FALSE stands for ValueError
FromHex(s) == FromHexAt(s, 1, <<>>)

DigestModulus == Pow(256, DigestBytes)

RECURSIVE Mix(_, _, _)
\* the bytes from the j-th on mixed into h, one byte at a time
Mix(h, bytes, j) == IF j > Len(bytes) THEN h
                    ELSE Mix((h * 33 + bytes[j] + 1) % DigestModulus, bytes, j + 1)

\* the digest as bytes, most significant first
DigestOf(h) == [j \in 1..DigestBytes |-> (h \div Pow(256, DigestBytes - j)) % 256]

\* hashlib.sha256(b).digest()
Sha256(bytes) == DigestOf(Mix(5381 % DigestModulus, bytes, 1))

\* bytes.hex(): two lower-case digits per byte
HexOf(bytes) == [j \in 1..(2 * Len(bytes)) |->
                   IF j % 2 = 1 THEN HexDigits[(bytes[(j + 1) \div 2] \div 16) + 1]
                   ELSE HexDigits[(bytes[j \div 2] % 16) + 1]]

\* hashlib.sha256(b).hexdigest()
HexDigest(bytes) == HexOf(Sha256(bytes))

RECURSIVE IntFromBytesLittle(_)
\* the bytes read least significant first
IntFromBytesLittle(bytes) ==
    IF bytes = <<>> THEN 0 ELSE Head(bytes) + 256 * IntFromBytesLittle(Tail(bytes))

RECURSIVE IntFromBytesBig(_)
\* int.from_bytes(b, "big")
IntFromBytesBig(bytes) ==
    IF bytes = <<>> THEN 0
    ELSE 256 * IntFromBytesBig(SubSeq(bytes, 1, Len(bytes) - 1)) + bytes[Len(bytes)]

\* a comparison that accepts any prefix of the digest
HashMatchesPrefix(calc, given) ==
    Len(given) <= Len(calc) /\ Lower(given) = SubSeq(Lower(calc), 1, Len(given))

\* calc_hash.lower() != args.hash.lower() is the mismatch
HashMatches(calc, given) == Lower(calc) = Lower(given)

(***************************************************************************)
(* decimal.Decimal, as far as load_bets and cents_map use it               *)
(***************************************************************************)
\* a finite Decimal is (-1)^sign * coeff * 10^exp
Dec(sign, coeff, exp) == [kind |-> "num", sign |-> sign, coeff |-> coeff, exp |-> exp]

NaN == [kind |-> "nan", sign |-> 0, coeff |-> 0, exp |-> 0]

\* CENT = Decimal("0.01")
CENT == Dec(0, 1, -2)

\* Decimal(): zero with exponent 0
DecimalZero == Dec(0, 0, 0)

\* a JSON amount as str() writes it: a decimal literal, nan, or no number at all
Number(sign, coeff, exp) == [t |-> "number", sign |-> sign, coeff |-> coeff, exp |-> exp]

JsonNaN == [t |-> "nan", sign |-> 0, coeff |-> 0, exp |-> 0]

JsonNull == [t |-> "null", sign |-> 0, coeff |-> 0, exp |-> 0]

\* Decimal(str(amt_val)): ok = FALSE stands for InvalidOperation
DecimalOfStr(v) ==
    IF v.t = "number" THEN [ok |-> TRUE, dec |-> Dec(v.sign, v.coeff, v.exp)]
    ELSE IF v.t = "nan" THEN [ok |-> TRUE, dec |-> NaN]
    ELSE [ok |-> FALSE, dec |-> NaN]

\* a quantize that rounds a half to the even neighbour
QuantizeHalfEven(q, r, unit) == IF 2 * r > unit \/ (2 * r = unit /\ q % 2 = 1) THEN q + 1 ELSE q

\* ROUND_HALF_UP: the quotient q of the coefficient by unit, with remainder r
RoundHalfUp(q, r, unit) == IF 2 * r >= unit THEN q + 1 ELSE q

\* the rounding of the default context (ROUND_HALF_EVEN)
RoundHalfEven(q, r, unit) == IF 2 * r > unit \/ (2 * r = unit /\ q % 2 = 1) THEN q + 1 ELSE q

\* d.quantize(CENT, ROUND_HALF_UP): the sign is kept, the magnitude is rounded;
\* a NaN stays a NaN
Quantize(d) ==
    IF d.kind = "nan" THEN d
    ELSE IF d.exp >= CENT.exp THEN Dec(d.sign, d.coeff * Pow(10, d.exp - CENT.exp), CENT.exp)
    ELSE LET unit == Pow(10, CENT.exp - d.exp)
         IN Dec(d.sign, RoundHalfUp(d.coeff \div unit, d.coeff % unit, unit), CENT.exp)

\* dec < 0 in place of dec <= 0
LtZero(d) == d.sign = 1 /\ d.coeff > 0

\* dec <= 0 on a finite Decimal
LeZero(d) == d.sign = 1 \/ d.coeff = 0

\* the signed coefficient of d at exponent e <= d.exp
Scaled(d, e) == (IF d.sign = 1 THEN -1 ELSE 1) * d.coeff * Pow(10, d.exp - e)

\* a + b
DecAdd(a, b) ==
    LET e == IF a.exp < b.exp THEN a.exp ELSE b.exp
        v == Scaled(a, e) + Scaled(b, e)
    IN IF v < 0 THEN Dec(1, -v, e) ELSE Dec(0, v, e)

\* amt / CENT: the divisor's coefficient is 1, so the quotient is exact
DivByCent(a) == Dec(a.sign, a.coeff, a.exp - CENT.exp)

\* to_integral_value() under the default context
ToIntegralValue(d) ==
    IF d.exp >= 0 THEN d
    ELSE LET unit == Pow(10, -d.exp)
         IN Dec(d.sign, RoundHalfEven(d.coeff \div unit, d.coeff % unit, unit), 0)

\* int(d) of an integral Decimal
IntOf(d) == Scaled(d, 0)

(***************************************************************************)
(* dict and sorted                                                         *)
(***************************************************************************)
\* a dict is the sequence of its items [key, val] in insertion order
DictHas(d, k) == \E j \in 1..Len(d) : d[j].key = k

DictGet(d, k, default) ==
    IF DictHas(d, k) THEN d[CHOOSE j \in 1..Len(d) : d[j].key = k].val ELSE default

\* d[k] = v: an existing key keeps its place and takes the new value
DictSet(d, k, v) ==
    IF DictHas(d, k)
    THEN [j \in 1..Len(d) |-> IF d[j].key = k THEN [key |-> k, val |-> v] ELSE d[j]]
    ELSE Append(d, [key |-> k, val |-> v])

RECURSIVE JsonLoadsFrom(_, _)
JsonLoadsFrom(members, d) ==
    IF members = <<>> THEN d
    ELSE JsonLoadsFrom(Tail(members), DictSet(d, Head(members).key, Head(members).val))

\* json.loads of a JSON object, member by member
JsonLoads(members) == JsonLoadsFrom(members, <<>>)

\* (u1, c1) < (u2, c2) on tuples
TupleLess(a, b) == StrLess(a.user, b.user) \/ (a.user = b.user /\ a.cents < b.cents)

RECURSIVE Insert(_, _)
Insert(sortedSeq, x) ==
    IF sortedSeq = <<>> THEN <<x>>
    ELSE IF TupleLess(x, Head(sortedSeq)) THEN <<x>> \o sortedSeq
    ELSE <<Head(sortedSeq)>> \o Insert(Tail(sortedSeq), x)

RECURSIVE Sorted(_)
\* sorted(list): ascending and stable
Sorted(list) == IF list = <<>> THEN <<>>
                ELSE Insert(Sorted(SubSeq(list, 1, Len(list) - 1)), list[Len(list)])

\* cents_map(bets)
cents_map(d) ==
    Sorted([j \in 1..Len(d) |->
              [user |-> d[j].key, cents |-> IntOf(ToIntegralValue(DivByCent(d[j].val)))]])

RECURSIVE SumCents(_)
\* sum(c for _, c in bets_cents)
SumCents(bc) == IF bc = <<>> THEN 0 ELSE Head(bc).cents + SumCents(Tail(bc))

(***************************************************************************)
(* Inputs: the command line and the bets file                              *)
(***************************************************************************)
\* "Seed must be 64 hex characters (32 bytes)"
SeedHexLen == 64

\* how the seeds given on the command line begin; the rest is zeros
SeedHeads == { <<"0", "0">>, <<"a", "B">>, <<" ", " ">>, <<"0", " ">>, <<"g", "0">> }

Seeds == { h \o Rep("0", n - Len(h)) : h \in SeedHeads,
                                       n \in {SeedHexLen - 1, SeedHexLen, SeedHexLen + 1} }

\* s with its last character replaced by another hex digit
Altered(s) == [j \in 1..Len(s) |-> IF j = Len(s) THEN (IF s[j] = "0" THEN "1" ELSE "0") ELSE s[j]]

\* the hashes published for a seed: the digest of its bytes in lower and in
\* upper case, the digest with one character altered, and a truncated digest
HashesFor(s) ==
    LET h == HexDigest(FromHex(s).bytes)
    IN {h, Upper(h), Altered(h), SubSeq(h, 1, Len(h) - 1)}

Users == { <<"1">>, <<"1", "0">>, <<"2">> }

\* the values of the bets file: a bare amount, or an object with "amount"
\* and "username"
Bare(a) == [isdict |-> FALSE, amount |-> a, username |-> ""]

Obj(a, name) == [isdict |-> TRUE, amount |-> a, username |-> name]

Values == { Bare(Number(0, 1005, -3)),        \* 1.005
            Bare(Number(0, 5, -3)),           \* 0.005
            Bare(Number(0, 4, -3)),           \* 0.004
            Bare(Number(0, 1, -1)),           \* 0.1
            Bare(Number(1, 5, -3)),           \* -0.005
            Bare(JsonNaN),                    \* NaN
            Obj(Number(0, 25, -3), "bob"),    \* {"amount": 0.025, "username": "bob"}
            Obj(JsonNull, "") }               \* {} : amount.get("amount") is None

Members == [key : Users, val : Values]

RECURSIVE SeqsUpTo(_, _)
\* the sequences over S of length at most n
SeqsUpTo(S, n) ==
    IF n = 0 THEN { <<>> }
    ELSE LET shorter == SeqsUpTo(S, n - 1)
         IN shorter \cup { Append(q, x) : q \in { t \in shorter : Len(t) = n - 1 }, x \in S }

\* what the bets file holds: nothing readable, JSON that is no object, or a
\* JSON object written as its members in file order (a key may be repeated)
BetsFiles == { [kind |-> "unreadable", members |-> <<>>], [kind |-> "array", members |-> <<>>] }
             \cup { [kind |-> "object", members |-> m] : m \in SeqsUpTo(Members, MaxEntries) }

(***************************************************************************)
(* State                                                                   *)
(***************************************************************************)
VARIABLES
    pc,             \* where main() is
    result,         \* "running", "Verified", or the error the run ended with
    seed,           \* args.seed
    hash,           \* args.hash
    seed_bytes,     \* main: seed_bytes
    calc_hash,      \* main: calc_hash
    file,           \* the contents of args.bets
    raw,            \* load_bets: raw
    pos,            \* load_bets: how many items of raw the loop has taken
    bets,           \* load_bets: bets
    usernames,      \* load_bets: usernames
    bets_cents,     \* main: bets_cents
    total,          \* pick_winner: total
    index,          \* pick_winner: index
    acc,            \* pick_winner: acc
    walked,         \* pick_winner: how many items of bets_cents the loop has taken
    winner,         \* main: winner
    ticket,         \* main: ticket
    total_tickets,  \* main: total_tickets
    assigned        \* the names among the above that the run has bound so far

vars == << pc, result, seed, hash, seed_bytes, calc_hash, file, raw, pos, bets, usernames,
           bets_cents, total, index, acc, walked, winner, ticket, total_tickets, assigned >>

args == << seed, hash >>
loadVars == << file, raw, pos, bets, usernames >>
drawVars == << total, index, acc, walked, winner, ticket >>

\* a name that is not in assigned is unbound; its variable then holds a
\* placeholder of the type it will have
Init ==
    /\ pc = "check_length"
    /\ result = "running"
    /\ seed \in Seeds
    /\ hash \in HashesFor(seed)
    /\ seed_bytes = <<>>
    /\ calc_hash = <<>>
    /\ file = [kind |-> "unread", members |-> <<>>]
    /\ raw = <<>>
    /\ pos = 0
    /\ bets = <<>>
    /\ usernames = <<>>
    /\ bets_cents = <<>>
    /\ total = 0
    /\ index = 0
    /\ acc = 0
    /\ walked = 0
    /\ winner = <<>>
    /\ ticket = 0
    /\ total_tickets = 0
    /\ assigned = {}

Bind(names) == assigned' = assigned \cup names

\* sys.exit(message) and an uncaught exception both end the run
Exit(kind) == pc' = "done" /\ result' = kind

(***************************************************************************)
(* main, step 1: validate seed <-> hash                                    *)
(***************************************************************************)
\* if len(args.seed) != 64: sys.exit(...)
CheckSeedLength ==
    /\ pc = "check_length"
    /\ IF Len(seed) # SeedHexLen
       THEN Exit("MalformedSeed")
       ELSE pc' = "decode" /\ UNCHANGED result
    /\ UNCHANGED << args, seed_bytes, calc_hash, loadVars, bets_cents, drawVars, total_tickets,
                    assigned >>

\* seed_bytes = bytes.fromhex(args.seed), ValueError -> sys.exit(...)
DecodeSeed ==
    /\ pc = "decode"
    /\ IF ~FromHex(seed).ok
       THEN Exit("MalformedSeed") /\ UNCHANGED << seed_bytes, assigned >>
       ELSE /\ pc' = "check_hash"
            /\ seed_bytes' = FromHex(seed).bytes
            /\ Bind({"seed_bytes"})
            /\ UNCHANGED result
    /\ UNCHANGED << args, calc_hash, loadVars, bets_cents, drawVars, total_tickets >>

\* calc_hash = sha256(seed_bytes).hexdigest(); mismatch -> sys.exit(...)
CheckHash ==
    /\ pc = "check_hash"
    /\ calc_hash' = HexDigest(seed_bytes)
    /\ Bind({"calc_hash"})
    /\ IF ~HashMatches(calc_hash', hash)
       THEN Exit("CommitmentMismatch")
       ELSE pc' = "read_bets" /\ UNCHANGED result
    /\ UNCHANGED << args, seed_bytes, loadVars, bets_cents, drawVars, total_tickets >>

(***************************************************************************)
(* load_bets                                                               *)
(***************************************************************************)
\* raw = json.loads(path.read_text()); it must be a dict
ReadBets ==
    /\ pc = "read_bets"
    /\ \E f \in BetsFiles :
         /\ file' = f
         /\ IF f.kind # "object"
            THEN Exit("BadBetsFile") /\ UNCHANGED raw /\ Bind({"file"})
            ELSE /\ pc' = "load_loop"
                 /\ raw' = JsonLoads(f.members)
                 /\ Bind({"file", "raw", "bets", "usernames"})
                 /\ UNCHANGED result
    /\ pos' = 0
    /\ bets' = <<>>
    /\ usernames' = <<>>
    /\ UNCHANGED << args, seed_bytes, calc_hash, bets_cents, drawVars, total_tickets >>

\* amt_val of one item of raw
AmtVal(v) == v.amount

\* username_val of one item of raw: amount.get("username") or ""
UsernameVal(v) == IF v.isdict THEN v.username ELSE ""

\* one turn of "for user, amount in raw.items()"
LoadBetsEntry ==
    /\ pc = "load_loop"
    /\ pos < Len(raw)
    /\ LET user == raw[pos + 1].key
           parsed == DecimalOfStr(AmtVal(raw[pos + 1].val))
           dec == Quantize(parsed.dec)
       IN IF ~parsed.ok
          THEN Exit("InvalidAmount") /\ UNCHANGED << pos, bets, usernames >>
          ELSE IF dec.kind = "nan"
          THEN Exit("UnhandledException") /\ UNCHANGED << pos, bets, usernames >>
          ELSE IF LeZero(dec)
          THEN Exit("NonPositiveStake") /\ UNCHANGED << pos, bets, usernames >>
          ELSE /\ bets' = DictSet(bets, user, DecAdd(DictGet(bets, user, DecimalZero), dec))
               /\ usernames' = IF UsernameVal(raw[pos + 1].val) # ""
                               THEN DictSet(usernames, user, UsernameVal(raw[pos + 1].val))
                               ELSE usernames
               /\ pos' = pos + 1
               /\ UNCHANGED << pc, result >>
    /\ UNCHANGED << args, seed_bytes, calc_hash, file, raw, bets_cents, drawVars, total_tickets,
                    assigned >>

\* return bets, usernames; bets_cents = cents_map(bets)
CentsMap ==
    /\ pc = "load_loop"
    /\ pos = Len(raw)
    /\ bets_cents' = cents_map(bets)
    /\ Bind({"bets_cents"})
    /\ pc' = "pick_winner"
    /\ UNCHANGED << result, args, seed_bytes, calc_hash, loadVars, drawVars, total_tickets >>

(***************************************************************************)
(* pick_winner                                                             *)
(***************************************************************************)
\* index <= acc
WalkHitInclusive(idx, a) == idx <= a

\* the index taken as counting tickets from 1
WalkHitOneBased(idx, a) == idx + 1 < a

\* index < acc
WalkHit(idx, a) == idx < a

\* a pool of one ticket taken for empty
IsEmptyPoolOffByOne(t) == t <= 1

\* if total == 0: sys.exit(...)
IsEmptyPool(t) == t = 0

RECURSIVE WalkFrom(_, _, _, _)
\* the loop of pick_winner from the k-th item on, with acc = a: the position
\* of the item it returns at, 0 when it falls through to the RuntimeError
WalkFrom(bc, idx, k, a) ==
    IF k > Len(bc) THEN 0
    ELSE IF WalkHit(idx, a + bc[k].cents) THEN k
    ELSE WalkFrom(bc, idx, k + 1, a + bc[k].cents)

\* total, the empty-pool exit, rand_int and index
PickWinnerIndex ==
    /\ pc = "pick_winner"
    /\ total' = SumCents(bets_cents)
    /\ IF IsEmptyPool(total')
       THEN Exit("EmptyPool") /\ UNCHANGED << index, acc >> /\ Bind({"total"})
       ELSE /\ index' = IntFromBytesBig(Sha256(seed_bytes)) % total'
            /\ acc' = 0
            /\ Bind({"total", "index", "acc"})
            /\ pc' = "walk"
            /\ UNCHANGED result
    /\ walked' = 0
    /\ UNCHANGED << args, seed_bytes, calc_hash, loadVars, bets_cents, winner, ticket,
                    total_tickets >>

\* one turn of "for user, cents in bets_cents"; when the list is exhausted,
\* raise RuntimeError("Winner could not be determined (internal error)")
WalkStep ==
    /\ pc = "walk"
    /\ IF walked = Len(bets_cents)
       THEN Exit("InternalInvariantViolation")
            /\ UNCHANGED << acc, walked, winner, ticket, assigned >>
       ELSE /\ acc' = acc + bets_cents[walked + 1].cents
            /\ walked' = walked + 1
            /\ UNCHANGED result
            /\ IF WalkHit(index, acc')
               THEN /\ winner' = bets_cents[walked + 1].user
                    /\ ticket' = index
                    /\ pc' = "output"
                    /\ Bind({"winner", "ticket"})
               ELSE UNCHANGED << winner, ticket, pc, assigned >>
    /\ UNCHANGED << args, seed_bytes, calc_hash, loadVars, bets_cents, total, index,
                    total_tickets >>

(***************************************************************************)
(* main, step 4: output                                                    *)
(***************************************************************************)
Output ==
    /\ pc = "output"
    /\ total_tickets' = SumCents(bets_cents)
    /\ Bind({"total_tickets"})
    /\ Exit("Verified")
    /\ UNCHANGED << args, seed_bytes, calc_hash, loadVars, bets_cents, drawVars >>

Next ==
    \/ CheckSeedLength
    \/ DecodeSeed
    \/ CheckHash
    \/ ReadBets
    \/ LoadBetsEntry
    \/ CentsMap
    \/ PickWinnerIndex
    \/ WalkStep
    \/ Output

Spec == Init /\ [][Next]_vars

(***************************************************************************)
(* Vocabulary of the properties                                            *)
(***************************************************************************)
HexChars == {"0", "1", "2", "3", "4", "5", "6", "7", "8", "9",
             "a", "b", "c", "d", "e", "f", "A", "B", "C", "D", "E", "F"}

\* a seed of exactly 64 hexadecimal characters
WellFormedSeed == Len(seed) = SeedHexLen /\ \A j \in 1..Len(seed) : seed[j] \in HexChars

\* the 32 bytes a well-formed seed stands for
SeedBytesOf(s) == [j \in 1..(Len(s) \div 2) |-> 16 * DigitValue(s[2 * j - 1]) + DigitValue(s[2 * j])]

\* the run got past the seed/commitment validation
ValidPair == "raw" \in assigned

\* the canonical rank of a participant identifier: "1" < "10" < "2"
Rank(u) == CASE u = <<"1">> -> 1 [] u = <<"1", "0">> -> 2 [] u = <<"2">> -> 3

\* a numeric amount in thousandths of the currency unit
Milli(a) == (IF a.sign = 1 THEN -1 ELSE 1) * a.coeff * Pow(10, a.exp + 3)

\* round-half-up of m > 0 thousandths to cents
HalfUpCents(m) == (m + 5) \div 10

IsNumber(v) == v.amount.t = "number"

\* the entry's amount, rounded to cents, is <= 0
RoundsNonPositive(v) == IsNumber(v) /\ (Milli(v.amount) <= 0 \/ HalfUpCents(Milli(v.amount)) = 0)

\* the entry is accepted: a number that rounds to at least one cent
Accepted(v) == IsNumber(v) /\ ~RoundsNonPositive(v)

\* the error an entry that is not accepted ends the run with
RejectionOf(v) == IF RoundsNonPositive(v) THEN "NonPositiveStake"
                  ELSE IF v.amount.t = "nan" THEN "UnhandledException"
                  ELSE "InvalidAmount"

\* the cumulative ticket total of the first k records
Cum(bc, k) == SumCents(SubSeq(bc, 1, k))

\* the record of participant u
RecordOf(bc, u) == bc[CHOOSE j \in 1..Len(bc) : bc[j].user = u]

RECURSIVE BigEndian(_, _)
\* the bytes d[1..n] read as a big-endian unsigned integer
BigEndian(d, n) == IF n = 0 THEN 0 ELSE d[n] + 256 * BigEndian(d, n - 1)

RECURSIVE SumOfKey(_, _)
\* the sum of the cents of every member written for participant u
SumOfKey(members, u) ==
    IF members = <<>> THEN 0
    ELSE (IF Head(members).key = u THEN HalfUpCents(Milli(Head(members).val.amount)) ELSE 0)
         + SumOfKey(Tail(members), u)

(***************************************************************************)
(* C1  Commitment soundness: for a well-formed seed whose digest differs   *)
(* (case-insensitively) from the published hash, the run ends with         *)
(* CommitmentMismatch whatever the stakes are, and at no point of the run  *)
(* is a winner or a ticket index set or reported.                          *)
(***************************************************************************)
C1_Mismatch == WellFormedSeed /\ Lower(HexDigest(SeedBytesOf(seed))) # Lower(hash)

C1_CommitmentSoundness ==
    C1_Mismatch =>
        /\ assigned \cap {"winner", "ticket", "total_tickets", "file", "bets_cents"} = {}
        /\ result \in {"running", "CommitmentMismatch"}
        /\ (pc = "done" => result = "CommitmentMismatch")

C1_Witness == C1_Mismatch /\ pc = "done" /\ result = "CommitmentMismatch"

(***************************************************************************)
(* C2  The draw: the ticket index is R mod totalTickets, with R the digest *)
(* of the seed bytes read as a big-endian unsigned integer; it lies in     *)
(* 0 .. totalTickets-1; the winner is the first participant in canonical   *)
(* order whose cumulative total exceeds it.                                *)
(***************************************************************************)
C2_PickWinner ==
    "winner" \in assigned =>
        LET T == Cum(bets_cents, Len(bets_cents))
            R == BigEndian(Sha256(seed_bytes), DigestBytes)
        IN /\ T > 0
           /\ ticket = R % T
           /\ 0 <= ticket /\ ticket <= T - 1
           /\ \E k \in 1..Len(bets_cents) :
                /\ winner = bets_cents[k].user
                /\ Cum(bets_cents, k - 1) <= ticket
                /\ ticket < Cum(bets_cents, k)
                /\ \A j \in 1..(k - 1) : Cum(bets_cents, j) <= ticket

C2_Witness ==
    /\ result = "Verified"
    /\ Len(bets_cents) >= 2
    /\ winner = bets_cents[2].user
    /\ ticket > 0

(***************************************************************************)
(* C3  Weighted-probability bound, for every ticket sequence handed to     *)
(* pick_winner: the indices at which the walk selects                      *)
(* the k-th participant are exactly Cum(k-1) .. Cum(k)-1, so the ranges    *)
(* are contiguous, disjoint, in canonical order, as wide as the            *)
(* participant's ticket count, and together cover 0 .. totalTickets-1.     *)
(***************************************************************************)
C3_RangesPartition ==
    pc = "pick_winner" =>
        LET T == Cum(bets_cents, Len(bets_cents))
            Selects(k) == { idx \in 0..(T - 1) : WalkFrom(bets_cents, idx, 1, 0) = k }
        IN /\ \A k \in 1..Len(bets_cents) :
                /\ Selects(k) = Cum(bets_cents, k - 1)..(Cum(bets_cents, k) - 1)
                /\ Cardinality(Selects(k)) = bets_cents[k].cents
           /\ UNION { Selects(k) : k \in 1..Len(bets_cents) } = 0..(T - 1)

C3_Witness ==
    /\ pc = "pick_winner"
    /\ Len(bets_cents) >= 2
    /\ bets_cents[1].cents > 1
    /\ bets_cents[2].cents > 1
    /\ bets_cents[1].cents # bets_cents[2].cents

(***************************************************************************)
(* C4  Canonical order stability: whatever the order of the entries of the *)
(* stake mapping, cents_map yields one record per distinct participant,    *)
(* strictly ascending by identifier, each with the participant's tickets:  *)
(* the sequence is a function of the mapping as a set of entries.          *)
(***************************************************************************)
C4_CanonicalOrder ==
    "bets_cents" \in assigned =>
        /\ Len(bets_cents) = Cardinality({ raw[j].key : j \in 1..Len(raw) })
        /\ { bets_cents[k].user : k \in 1..Len(bets_cents) } = { raw[j].key : j \in 1..Len(raw) }
        /\ \A j, k \in 1..Len(bets_cents) :
             j < k => Rank(bets_cents[j].user) < Rank(bets_cents[k].user)
        /\ \A j \in 1..Len(raw) :
             RecordOf(bets_cents, raw[j].key).cents = HalfUpCents(Milli(raw[j].val.amount))

C4_Witness ==
    /\ "bets_cents" \in assigned
    /\ Len(raw) >= 2
    /\ Rank(raw[1].key) > Rank(raw[2].key)
    /\ raw[1].key = <<"2">> /\ raw[2].key = <<"1", "0">>

(***************************************************************************)
(* C5  Seed validation: a seed that is not exactly 64 characters or holds  *)
(* a character that is no hexadecimal digit (whitespace included) ends the *)
(* run with MalformedSeed, and a seed that passes decodes to 32 bytes.     *)
(***************************************************************************)
C5_SeedValidation ==
    /\ (pc = "done" /\ ~WellFormedSeed) => result = "MalformedSeed"
    /\ "seed_bytes" \in assigned => Len(seed_bytes) = SeedHexLen \div 2

(***************************************************************************)
(* C6  Round-half-up and exact conversion: an accepted entry of m > 0      *)
(* thousandths is held as floor((m + 5) / 10) cents, at two fractional     *)
(* digits, and the participant's ticket count is that number of cents.     *)
(***************************************************************************)
C6_RoundHalfUpExact ==
    ValidPair =>
        /\ \A j \in 1..pos :
             LET amt == DictGet(bets, raw[j].key, DecimalZero)
             IN /\ Milli(raw[j].val.amount) > 0
                /\ amt.sign = 0
                /\ amt.exp = -2
                /\ amt.coeff = HalfUpCents(Milli(raw[j].val.amount))
        /\ "bets_cents" \in assigned =>
             \A j \in 1..Len(raw) :
                /\ RecordOf(bets_cents, raw[j].key).cents = HalfUpCents(Milli(raw[j].val.amount))
                /\ RecordOf(bets_cents, raw[j].key).cents
                      = DictGet(bets, raw[j].key, DecimalZero).coeff

C6_Witness ==
    /\ "bets_cents" \in assigned
    /\ \E j \in 1..Len(raw) :
         /\ Milli(raw[j].val.amount) = 1005
         /\ RecordOf(bets_cents, raw[j].key).cents = 101
    /\ \E j \in 1..Len(raw) :
         /\ Milli(raw[j].val.amount) = 25
         /\ RecordOf(bets_cents, raw[j].key).cents = 3

C8_EmptyPool ==
    ValidPair =>
        /\ pc = "done" => (result = "EmptyPool" <=> raw = <<>>)
        /\ result = "EmptyPool" => (total = 0 /\ assigned \cap {"winner", "ticket"} = {})
        /\ ("total" \in assigned /\ raw # <<>>) => total >= 1

C8_Witness == pc = "done" /\ result = "EmptyPool" /\ file.members = <<>>

(***************************************************************************)
(* C9  Repeated participants: when an identifier is written several times  *)
(* in the bets file, the participant's tickets are the sum of the cents of *)
(* each of its entries, each rounded on its own.                           *)
(***************************************************************************)
C9_DuplicatesSummed ==
    ("bets_cents" \in assigned /\ \A j \in 1..Len(file.members) : Accepted(file.members[j].val)) =>
        \A j \in 1..Len(file.members) :
            RecordOf(bets_cents, file.members[j].key).cents
               = SumOfKey(file.members, file.members[j].key)

(***************************************************************************)
(* C10  The internal-invariant error is unreachable: the walk is never at  *)
(* the end of the ticket sequence without having selected a winner.        *)
(***************************************************************************)
C10_NoInternalError ==
    /\ result # "InternalInvariantViolation"
    /\ pc = "walk" => (walked < Len(bets_cents) /\ acc <= index /\ index < total)

C10_Witness ==
    /\ result = "Verified"
    /\ Len(bets_cents) >= 2
    /\ walked = Len(bets_cents)
    /\ ticket = total - 1

====
